---- MODULE Spec2Model ----
(***************************************************************************)
(* Model of verify-structure.py: the structure verification script of the  *)
(* Financial Aid Assistant.  One run of main() probes nine directories,    *)
(* eleven files and the development database under a fixed base directory, *)
(* prints one line per probe and a summary block, and returns 0 or 1.      *)
(*                                                                         *)
(* A path is the sequence of its components.  The filesystem maps every    *)
(* path the script can touch to the kind of entry found there.  An output  *)
(* line is a record: the glyph it starts with, its text and the path it    *)
(* ends with (empty when the line shows none).                             *)
(***************************************************************************)
EXTENDS Integers, Sequences, FiniteSets, TLC

VARIABLES fs, pc, idx, dir_results, file_results, db_exists, out, exit, run, prev

vars == <<fs, pc, idx, dir_results, file_results, db_exists, out, exit, run, prev>>

(* Bounds of the model. *)
MaxChanges == 2
MaxRuns == 2

(* The glyphs of the status column: U+2713, U+2717 and U+26A0 U+FE0F. *)
CheckMark == "check-mark"
Cross == "cross"
Warning == "warning-sign"

Range(s) == {s[n] : n \in 1..Len(s)}

base_dir == <<"home", "dpham", "Projects", "finaid">>

directories ==
  << <<(<<"Components">>), "Blazor Components">>,
     <<(<<"Components", "Pages">>), "Page Components">>,
     <<(<<"Components", "Forms">>), "Form Components">>,
     <<(<<"Components", "Documents">>), "Document Components">>,
     <<(<<"Components", "Dashboard">>), "Dashboard Components">>,
     <<(<<"Services">>), "Service Layer">>,
     <<(<<"Models">>), "Data Models">>,
     <<(<<"Data">>), "Data Access Layer">>,
     <<(<<"Configuration">>), "Configuration Classes">> >>

files ==
  << <<(<<"Program.cs">>), "Application Startup">>,
     <<(<<"appsettings.json">>), "Application Configuration">>,
     <<(<<"appsettings.Development.json">>), "Development Configuration">>,
     <<(<<"Components", "Pages", "Documents.razor">>), "Documents Page">>,
     <<(<<"Components", "Pages", "FAFSA.razor">>), "FAFSA Page">>,
     <<(<<"Components", "Pages", "Progress.razor">>), "Progress Page">>,
     <<(<<"Components", "Forms", "FAFSAFormWithAI.razor">>), "FAFSA AI Form">>,
     <<(<<"Components", "Documents", "DocumentUpload.razor">>), "Document Upload Component">>,
     <<(<<"Services", "Documents", "DocumentUIService.cs">>), "Document UI Service">>,
     <<(<<"Services", "Forms", "FormAssistanceService.cs">>), "Form Assistance Service">>,
     <<(<<"Services", "Dashboard", "DashboardDataService.cs">>), "Dashboard Data Service">> >>

(* base_dir / relative_path *)
FullPath(rel) == base_dir \o rel

db_file == FullPath(<<"finaid-dev.db">>)

DirPaths == {FullPath(e[1]) : e \in Range(directories)}
FilePaths == {FullPath(e[1]) : e \in Range(files)}

(***************************************************************************)
(* The filesystem.  Every listed path, the database file, and every        *)
(* directory on the way from the base directory to one of them.            *)
(***************************************************************************)
Front(p) == SubSeq(p, 1, Len(p) - 1)

Prefixes(p) == {SubSeq(p, 1, n) : n \in Len(base_dir)..Len(p)}

AllPaths == UNION {Prefixes(p) : p \in DirPaths \cup FilePaths \cup {db_file}}

Kinds == {"absent", "file", "dir"}

(* The kind of entry each path holds in a complete checkout. *)
IntactKind(p) == IF p \in FilePaths \cup {db_file} THEN "file" ELSE "dir"

WrongKind(p) == IF IntactKind(p) = "file" THEN "dir" ELSE "file"

(* stat(): resolve the path component by component below the base directory;
   a component can only be found inside a directory. *)
RECURSIVE Lookup(_, _)
Lookup(f, p) ==
  IF p = base_dir THEN f[p]
  ELSE IF Lookup(f, Front(p)) = "dir" THEN f[p] ELSE "absent"

(* A tree: nothing exists below a path that is not a directory. *)
Consistent(f) == \A p \in AllPaths : Lookup(f, p) = f[p]

RECURSIVE SubsetsUpTo(_, _)
SubsetsUpTo(S, k) ==
  IF k = 0 THEN {{}}
  ELSE LET smaller == SubsetsUpTo(S, k - 1)
       IN smaller \cup {T \cup {x} : T \in smaller, x \in S}

(* The complete checkout with the entries of S removed ("absent") or
   replaced by an entry of the other kind ("wrong"). *)
Damaged(S, how) ==
  LET raw == [p \in AllPaths |->
                IF p \in S
                THEN (IF how[p] = "absent" THEN "absent" ELSE WrongKind(p))
                ELSE IntactKind(p)]
  IN [p \in AllPaths |-> Lookup(raw, p)]

FileSystems ==
  {Damaged(S, how) : <<S, how>> \in
     UNION {{<<S, how>> : how \in [S -> {"absent", "wrong"}]} :
              S \in SubsetsUpTo(AllPaths, MaxChanges)}}

(***************************************************************************)
(* os.path                                                                 *)
(***************************************************************************)
os_path_exists(f, path) == Lookup(f, path) # "absent"

os_path_isdir(f, path) == Lookup(f, path) = "dir"

(***************************************************************************)
(* Output lines                                                            *)
(***************************************************************************)
Line(glyph, text, path) == [glyph |-> glyph, text |-> text, path |-> path]

Text(text) == Line("", text, <<>>)

Blank == Text("")

(* f"{status} {description}: {path}" *)
StatusLine(status, description, path) == Line(status, description, path)

(* The result of a check function: its return value and the line it prints. *)
check_file_exists(f, path, description) ==
  LET exists == os_path_exists(f, path)
      status == IF exists THEN CheckMark ELSE Cross
  IN [ret |-> exists, line |-> StatusLine(status, description, path)]


(* The directory check as a copy of the file check: os.path.exists. *)
check_directory_exists_any(f, path, description) ==
  check_file_exists(f, path, description)

check_directory_exists(f, path, description) ==
  LET exists == os_path_isdir(f, path)
      status == IF exists THEN CheckMark ELSE Cross
  IN [ret |-> exists, line |-> StatusLine(status, description, path)]


(* any() where all() was meant. *)
all_any(results) == \E n \in 1..Len(results) : results[n]

(* all(): every element of the list is true. *)
all(results) == \A n \in 1..Len(results) : results[n]

HeaderLines ==
  << Text("Financial Aid Assistant - Structure Verification"),
     Text("==================================================") >>


(* The database line with the glyphs of the other checks. *)
DbStatus_cross(exists) == IF exists THEN CheckMark ELSE Cross

DbStatus(exists) == IF exists THEN CheckMark ELSE Warning

DbLines(f) ==
  LET exists == os_path_exists(f, db_file)
  IN <<StatusLine(DbStatus(exists), "Database File", db_file)>> \o
     (IF ~exists
      THEN <<Text("   Note: Database will be created on first run")>>
      ELSE <<>>)

ConfirmationBlock ==
  << Line(CheckMark, "All required components are in place!", <<>>),
     Line(CheckMark, "Frontend-backend integration is properly configured", <<>>),
     Line(CheckMark, "Application is ready for manual testing", <<>>) >>

WarningBlock ==
  << Line(Warning, " Some components are missing or incomplete", <<>>),
     Text("Please check the missing items above") >>


(* The two branches of the summary with their prints exchanged. *)
SummaryBlock_swapped(all_dirs_ok, all_files_ok) ==
  IF all_dirs_ok /\ all_files_ok THEN WarningBlock ELSE ConfirmationBlock

SummaryBlock(all_dirs_ok, all_files_ok) ==
  IF all_dirs_ok /\ all_files_ok THEN ConfirmationBlock ELSE WarningBlock


(* "or" where "and" was meant. *)
ExitStatus_or(all_dirs_ok, all_files_ok) ==
  IF all_dirs_ok \/ all_files_ok THEN 0 ELSE 1

ExitStatus(all_dirs_ok, all_files_ok) ==
  IF all_dirs_ok /\ all_files_ok THEN 0 ELSE 1

(***************************************************************************)
(* The run                                                                 *)
(***************************************************************************)
Init ==
  /\ fs \in FileSystems
  /\ pc = "start"
  /\ idx = 1
  /\ dir_results = <<>>
  /\ file_results = <<>>
  /\ db_exists = FALSE
  /\ out = <<>>
  /\ exit = -1
  /\ run = 1
  /\ prev = [fs |-> fs, out |-> <<>>, exit |-> -1]

(* The banner. *)
Header ==
  /\ pc = "start"
  /\ out' = out \o HeaderLines
  /\ pc' = "dirs"
  /\ UNCHANGED <<fs, idx, dir_results, file_results, db_exists, exit, run, prev>>


(* The loop over reversed(directories). *)
CheckDir_reversed ==
  /\ pc = "dirs"
  /\ idx <= Len(directories)
  /\ LET e == directories[Len(directories) + 1 - idx]
         r == check_directory_exists(fs, FullPath(e[1]), e[2])
     IN /\ out' = Append(out, r.line)
        /\ dir_results' = Append(dir_results, r.ret)
  /\ IF idx = Len(directories)
     THEN pc' = "blank1" /\ idx' = 1
     ELSE pc' = pc /\ idx' = idx + 1
  /\ UNCHANGED <<fs, file_results, db_exists, exit, run, prev>>

(* The loop with a break after the first failed check. *)
CheckDir_break ==
  /\ pc = "dirs"
  /\ idx <= Len(directories)
  /\ LET full_path == FullPath(directories[idx][1])
         r == check_directory_exists(fs, full_path, directories[idx][2])
     IN /\ out' = Append(out, r.line)
        /\ dir_results' = Append(dir_results, r.ret)
        /\ IF idx = Len(directories) \/ ~r.ret
           THEN pc' = "blank1" /\ idx' = 1
           ELSE pc' = pc /\ idx' = idx + 1
  /\ UNCHANGED <<fs, file_results, db_exists, exit, run, prev>>

(* The check with os.mkdir for a directory that is not there. *)
CheckDir_mkdir ==
  /\ pc = "dirs"
  /\ idx <= Len(directories)
  /\ LET full_path == FullPath(directories[idx][1])
         r == check_directory_exists(fs, full_path, directories[idx][2])
     IN /\ out' = Append(out, r.line)
        /\ dir_results' = Append(dir_results, r.ret)
        /\ fs' = IF fs[full_path] = "absent" /\ Lookup(fs, Front(full_path)) = "dir"
                 THEN [fs EXCEPT ![full_path] = "dir"]
                 ELSE fs
  /\ IF idx = Len(directories)
     THEN pc' = "blank1" /\ idx' = 1
     ELSE pc' = pc /\ idx' = idx + 1
  /\ UNCHANGED <<file_results, db_exists, exit, run, prev>>

(* One iteration of the loop over directories. *)
CheckDir ==
  /\ pc = "dirs"
  /\ idx <= Len(directories)
  /\ LET full_path == FullPath(directories[idx][1])
         r == check_directory_exists(fs, full_path, directories[idx][2])
     IN /\ out' = Append(out, r.line)
        /\ dir_results' = Append(dir_results, r.ret)
  /\ IF idx = Len(directories)
     THEN pc' = "blank1" /\ idx' = 1
     ELSE pc' = pc /\ idx' = idx + 1
  /\ UNCHANGED <<fs, file_results, db_exists, exit, run, prev>>

Blank1 ==
  /\ pc = "blank1"
  /\ out' = Append(out, Blank)
  /\ pc' = "files"
  /\ UNCHANGED <<fs, idx, dir_results, file_results, db_exists, exit, run, prev>>

(* One iteration of the loop over files. *)
CheckFile ==
  /\ pc = "files"
  /\ idx <= Len(files)
  /\ LET full_path == FullPath(files[idx][1])
         r == check_file_exists(fs, full_path, files[idx][2])
     IN /\ out' = Append(out, r.line)
        /\ file_results' = Append(file_results, r.ret)
  /\ IF idx = Len(files)
     THEN pc' = "blank2" /\ idx' = 1
     ELSE pc' = pc /\ idx' = idx + 1
  /\ UNCHANGED <<fs, dir_results, db_exists, exit, run, prev>>

Blank2 ==
  /\ pc = "blank2"
  /\ out' = Append(out, Blank)
  /\ pc' = "db"
  /\ UNCHANGED <<fs, idx, dir_results, file_results, db_exists, exit, run, prev>>


(* The database check counted among the file checks. *)
CheckDb_gating ==
  /\ pc = "db"
  /\ db_exists' = os_path_exists(fs, db_file)
  /\ file_results' = Append(file_results, os_path_exists(fs, db_file))
  /\ out' = out \o DbLines(fs)
  /\ pc' = "blank3"
  /\ UNCHANGED <<fs, idx, dir_results, exit, run, prev>>

(* The database check creating the file it does not find. *)
CheckDb_creates ==
  /\ pc = "db"
  /\ db_exists' = os_path_exists(fs, db_file)
  /\ out' = out \o DbLines(fs)
  /\ fs' = IF Lookup(fs, base_dir) = "dir" /\ fs[db_file] = "absent"
           THEN [fs EXCEPT ![db_file] = "file"]
           ELSE fs
  /\ pc' = "blank3"
  /\ UNCHANGED <<idx, dir_results, file_results, exit, run, prev>>

(* The database check, with its note. *)
CheckDb ==
  /\ pc = "db"
  /\ db_exists' = os_path_exists(fs, db_file)
  /\ out' = out \o DbLines(fs)
  /\ pc' = "blank3"
  /\ UNCHANGED <<fs, idx, dir_results, file_results, exit, run, prev>>

Blank3 ==
  /\ pc = "blank3"
  /\ out' = Append(out, Blank)
  /\ pc' = "summary"
  /\ UNCHANGED <<fs, idx, dir_results, file_results, db_exists, exit, run, prev>>

(* The summary block and the return value. *)
Summary ==
  /\ pc = "summary"
  /\ LET all_dirs_ok == all(dir_results)
         all_files_ok == all(file_results)
     IN /\ out' = out \o SummaryBlock(all_dirs_ok, all_files_ok)
        /\ exit' = ExitStatus(all_dirs_ok, all_files_ok)
  /\ pc' = "done"
  /\ UNCHANGED <<fs, idx, dir_results, file_results, db_exists, run, prev>>

(* sys.exit(main()) ended; the script is started again, a new process on
   the same disk.  prev keeps what the run before saw and produced. *)
Invoke ==
  /\ pc = "done"
  /\ run < MaxRuns
  /\ prev' = [fs |-> fs, out |-> out, exit |-> exit]
  /\ run' = run + 1
  /\ pc' = "start"
  /\ idx' = 1
  /\ dir_results' = <<>>
  /\ file_results' = <<>>
  /\ db_exists' = FALSE
  /\ out' = <<>>
  /\ exit' = -1
  /\ UNCHANGED fs

(* Before the script is run again the application is started ("Database
   will be created on first run") or the database file is deleted. *)
DbChange ==
  /\ pc = "start"
  /\ run > 1
  /\ Lookup(fs, base_dir) = "dir"
  /\ fs' = [fs EXCEPT ![db_file] = IF @ = "absent" THEN "file" ELSE "absent"]
  /\ UNCHANGED <<pc, idx, dir_results, file_results, db_exists, out, exit, run, prev>>

Main ==
  \/ Header
  \/ CheckDir
  \/ Blank1
  \/ CheckFile
  \/ Blank2
  \/ CheckDb
  \/ Blank3
  \/ Summary

Next == Main \/ Invoke

Spec == Init /\ [][Next]_vars

NextDb == Main \/ Invoke \/ DbChange

SpecDb == Init /\ [][NextDb]_vars

TypeOK ==
  /\ fs \in [AllPaths -> Kinds]
  /\ Consistent(fs)
  /\ pc \in {"start", "dirs", "blank1", "files", "blank2", "db", "blank3", "summary", "done"}
  /\ exit \in {-1, 0, 1}
  /\ run \in 1..MaxRuns

(***************************************************************************)
(* Properties                                                              *)
(***************************************************************************)
H == Len(HeaderLines)
D == Len(directories)
F == Len(files)

NoteLine == Text("   Note: Database will be created on first run")

DirPath(i) == FullPath(directories[i][1])
FilePath(j) == FullPath(files[j][1])

(* What the disk holds, read off the tree itself. *)
DirPresent(f, i) == f[DirPath(i)] = "dir"
FilePresent(f, j) == f[FilePath(j)] # "absent"
AllDirsPresent(f) == \A i \in 1..D : DirPresent(f, i)
AllFilesPresent(f) == \A j \in 1..F : FilePresent(f, j)
DbAbsent(f) == f[db_file] = "absent"

(* o contains the lines of block b, one after the other. *)
HasBlock(o, b) ==
  \E n \in 0..(Len(o) - Len(b)) : SubSeq(o, n + 1, n + Len(b)) = b

(* The lines after the last blank line of o. *)
SummaryOf(o) ==
  LET blanks == {n \in 1..Len(o) : o[n] = Blank}
      last == IF blanks = {} THEN 0
              ELSE CHOOSE n \in blanks : \A m \in blanks : m <= n
  IN SubSeq(o, last + 1, Len(o))

LinesFor(o, p) == {n \in 1..Len(o) : o[n].path = p}

(* C1: main() returns 0 exactly when all nine directory checks and all
   eleven file checks returned true, which is when every listed directory
   is a directory and every listed file path exists; otherwise it returns
   1, and no other status is produced. *)
ExitCodeContract ==
  /\ pc # "done" => exit = -1
  /\ pc = "done" =>
       /\ exit \in {0, 1}
       /\ Len(dir_results) = 9 /\ Len(file_results) = 11
       /\ exit = 0 <=> /\ \A i \in 1..9 : dir_results[i]
                       /\ \A j \in 1..11 : file_results[j]
       /\ exit = 0 <=> AllDirsPresent(fs) /\ AllFilesPresent(fs)

ExitCodeWitness ==
  /\ pc = "done" /\ exit = 1
  /\ AllDirsPresent(fs) /\ ~AllFilesPresent(fs)

(* C2: two runs on disks that agree on every listed directory and file and
   differ only in the database file return the same status and print the
   same summary block; with the database absent and everything else
   present the status is 0. *)
DbNeverGates ==
  /\ (pc = "done" /\ run > 1
        /\ \A p \in DirPaths \cup FilePaths : fs[p] = prev.fs[p])
     => /\ exit = prev.exit
        /\ SummaryOf(out) = SummaryOf(prev.out)
  /\ (pc = "done" /\ DbAbsent(fs) /\ AllDirsPresent(fs) /\ AllFilesPresent(fs))
     => exit = 0

DbNeverGatesWitness ==
  /\ pc = "done" /\ run > 1
  /\ ~DbAbsent(prev.fs) /\ DbAbsent(fs)
  /\ AllDirsPresent(fs) /\ AllFilesPresent(fs)
  /\ exit = 0 /\ prev.exit = 0

(* C3: whatever passes or fails, the output is laid out as: the directory
   lines in declared order, a blank line, the file lines in declared order,
   a blank line, the database line (with its note when the database is
   absent), a blank line, the summary block. *)
OrderInvariant ==
  LET note == IF DbAbsent(fs) THEN 1 ELSE 0
      dbAt == H + D + 1 + F + 2
      sumAt == dbAt + note + 2
  IN /\ \A n \in 1..Len(out) :
          /\ (H < n /\ n <= H + D) =>
                /\ out[n].text = directories[n - H][2]
                /\ out[n].path = DirPath(n - H)
                /\ out[n].glyph \in {CheckMark, Cross}
          /\ n = H + D + 1 => out[n] = Blank
          /\ (H + D + 1 < n /\ n <= H + D + 1 + F) =>
                /\ out[n].text = files[n - (H + D + 1)][2]
                /\ out[n].path = FilePath(n - (H + D + 1))
                /\ out[n].glyph \in {CheckMark, Cross}
          /\ n = dbAt - 1 => out[n] = Blank
          /\ n = dbAt => out[n].text = "Database File" /\ out[n].path = db_file
          /\ (note = 1 /\ n = dbAt + 1) => out[n] = NoteLine
          /\ n = sumAt - 1 => out[n] = Blank
          /\ n >= sumAt =>
                /\ pc = "done"
                /\ SubSeq(out, sumAt, Len(out)) \in {ConfirmationBlock, WarningBlock}
     /\ pc = "done" => Len(out) >= sumAt

OrderWitness ==
  /\ pc = "done"
  /\ \E i \in 1..D : ~DirPresent(fs, i)
  /\ \E j \in 1..F : ~FilePresent(fs, j)
  /\ \E i \in 1..D : DirPresent(fs, i)
  /\ DbAbsent(fs)

(* C4: a second run on the unchanged disk prints the same lines and returns
   the same status as the first. *)
Idempotent ==
  (pc = "done" /\ run > 1 /\ prev.fs = fs)
  => out = prev.out /\ exit = prev.exit

IdempotentWitness ==
  /\ pc = "done" /\ run > 1 /\ prev.fs = fs
  /\ DbAbsent(fs) /\ exit = 1 /\ Len(out) > H

(* C5: with exactly one listed directory or file missing and every other
   one present, the run returns 1, the line of the missing entry (and only
   that line) carries the failure glyph, and the warning block is printed,
   not the confirmation block. *)
Missing == {p \in DirPaths \cup FilePaths : fs[p] = "absent"}

OneMissing ==
  /\ Cardinality(Missing) = 1
  /\ \A p \in DirPaths \ Missing : fs[p] = "dir"

OneMissingFails ==
  (pc = "done" /\ OneMissing) =>
    /\ exit = 1
    /\ \A p \in DirPaths \cup FilePaths :
         /\ Cardinality(LinesFor(out, p)) = 1
         /\ \A n \in LinesFor(out, p) :
              out[n].glyph = IF p \in Missing THEN Cross ELSE CheckMark
    /\ SummaryOf(out) = WarningBlock
    /\ ~HasBlock(out, ConfirmationBlock)

OneMissingWitness ==
  /\ pc = "done" /\ OneMissing
  /\ Missing \subseteq DirPaths

OneMissingFileWitness ==
  /\ pc = "done" /\ OneMissing
  /\ Missing \subseteq FilePaths

(* C6: every finished run has printed exactly one summary block: the
   confirmation block exactly when it returns 0, the warning block exactly
   when it returns 1. *)
SummaryAgrees ==
  /\ pc = "done" =>
       /\ HasBlock(out, ConfirmationBlock) <=> exit = 0
       /\ HasBlock(out, WarningBlock) <=> exit = 1
       /\ HasBlock(out, ConfirmationBlock) # HasBlock(out, WarningBlock)
  /\ pc # "done" =>
       /\ ~HasBlock(out, ConfirmationBlock)
       /\ ~HasBlock(out, WarningBlock)

SummaryAgreesWitness ==
  /\ pc = "done" /\ exit = 1
  /\ HasBlock(out, WarningBlock)

(* C7: the database line never carries the failure glyph: it carries the
   advisory glyph and is immediately followed by the note when the
   database is absent, the success glyph and no note when it is present. *)
DbLineAdvisory ==
  /\ \A n \in LinesFor(out, db_file) :
       /\ out[n].glyph # Cross
       /\ DbAbsent(fs) =>
            /\ out[n].glyph = Warning
            /\ n + 1 <= Len(out) /\ out[n + 1] = NoteLine
       /\ ~DbAbsent(fs) => out[n].glyph = CheckMark
  /\ pc \in {"blank3", "summary", "done"} => Cardinality(LinesFor(out, db_file)) = 1
  /\ (\E n \in 1..Len(out) : out[n] = NoteLine)
       <=> (pc \in {"blank3", "summary", "done"} /\ DbAbsent(fs))

DbLineWitness ==
  /\ pc = "done" /\ DbAbsent(fs)
  /\ \E n \in 1..Len(out) : out[n] = NoteLine

(* C8: a non-directory at a listed directory path fails its check and
   forces status 1; a directory at a listed file path passes its check and
   does not by itself prevent status 0. *)
TypeSensitivity ==
  pc = "done" =>
    /\ \A i \in 1..D :
         fs[DirPath(i)] = "file" => ~dir_results[i] /\ exit = 1
    /\ \A j \in 1..F :
         fs[FilePath(j)] = "dir" => file_results[j]
    /\ ((\E j \in 1..F : fs[FilePath(j)] = "dir")
          /\ AllDirsPresent(fs) /\ AllFilesPresent(fs)) => exit = 0

TypeSensitivityWitness ==
  /\ pc = "done"
  /\ \E i \in 1..D : fs[DirPath(i)] = "file" /\ ~dir_results[i]
  /\ \E j \in 1..F : fs[FilePath(j)] = "dir" /\ file_results[j]

(* C9: no check is skipped after a failure: every entry is checked once
   and prints one line, the i-th result is that of the i-th declared entry,
   a line carries the success glyph exactly when its result is true, and
   at the summary there are nine directory and eleven file results. *)
NoCheckSkipped ==
  /\ \A i \in 1..Len(dir_results) :
       /\ i <= D
       /\ dir_results[i] = DirPresent(fs, i)
       /\ Cardinality(LinesFor(out, DirPath(i))) = 1
       /\ \A n \in LinesFor(out, DirPath(i)) :
            /\ out[n].glyph \in {CheckMark, Cross}
            /\ out[n].glyph = CheckMark <=> dir_results[i]
  /\ \A j \in 1..Len(file_results) :
       /\ j <= F
       /\ file_results[j] = FilePresent(fs, j)
       /\ Cardinality(LinesFor(out, FilePath(j))) = 1
       /\ \A n \in LinesFor(out, FilePath(j)) :
            /\ out[n].glyph \in {CheckMark, Cross}
            /\ out[n].glyph = CheckMark <=> file_results[j]
  /\ Cardinality({n \in 1..Len(out) : out[n].path \in DirPaths}) = Len(dir_results)
  /\ Cardinality({n \in 1..Len(out) : out[n].path \in FilePaths}) = Len(file_results)
  /\ pc \in {"summary", "done"} =>
       Len(dir_results) = 9 /\ Len(file_results) = 11

NoCheckSkippedWitness ==
  /\ pc = "summary"
  /\ ~dir_results[1] /\ ~file_results[1]
  /\ Len(dir_results) = 9 /\ Len(file_results) = 11

(* C10: a run is read-only: no step changes the filesystem, and a run that
   follows one that printed the database note prints the note again. *)
ReadOnly ==
  /\ [][fs' = fs]_vars
  /\ []((pc = "done" /\ run > 1 /\ NoteLine \in Range(prev.out))
          => DbAbsent(fs) /\ NoteLine \in Range(out))

ReadOnlyWitness ==
  /\ pc = "done" /\ run > 1
  /\ NoteLine \in Range(prev.out)
  /\ NoteLine \in Range(out)
  /\ DbAbsent(fs)
====
